---- MODULE Spec2Model ----
(***************************************************************************)
(* State-machine model of the Excalidraw MCP server's tool-call handler    *)
(* (src/src/index.js): the in-memory element Map, the scene state with its *)
(* group registry, and one action per tool of the CallToolRequestSchema    *)
(* handler.                                                                *)
(*                                                                         *)
(* JavaScript values are tagged records [t |-> <typeof>, v |-> <payload>].  *)
(* A number is an IEEE-754 double, named by a decimal and a distance:      *)
(* [v |-> n, den |-> d] is the double nearest to n/d, as the literal n/d   *)
(* denotes it, and [v |-> n, den |-> d, ulps |-> u] is the double u places *)
(* after it in the ordered sequence of doubles, so that the literal 0.07   *)
(* is [7, 100] and 0.07 * 100 = 7.000000000000001 is [7, 1, ulps 1].       *)
(* Products are computed on the 53-bit significands.  A JS                 *)
(* object (argument bag, element record) is a function from its own keys   *)
(* to tagged values: a key that is `undefined` in JS is a key outside the  *)
(* DOMAIN.                                                                 *)
(***************************************************************************)
EXTENDS Integers, Sequences, FiniteSets, TLC

VARIABLES
    elements,       \* types.js `elements` Map: sequence of [key, value] in insertion order
    sceneState,     \* index.js:21 sceneState; selectedElements (a Set) and groups (a Map) in insertion order
    nextId,         \* how many identifiers generateId() has handed out
    pendingWrites,  \* save_scene calls suspended at `await fs.writeFile`
    files,          \* the file system seen through fs.writeFile: filename -> content
    result,         \* the response the handler returned to the last request it finished
    updateCount,    \* history: successful update_element calls per element key
    deleted         \* history: keys removed by a successful delete_element

vars == <<elements, sceneState, nextId, pendingWrites, files, result, updateCount, deleted>>

----------------------------------------------------------------------------
(* JavaScript values *)

RECURSIVE GCD(_, _)
GCD(a, b) == IF b = 0 THEN a ELSE GCD(b, a % b)

Abs(n) == IF n < 0 THEN -n ELSE n

\* the double nearest to n/d (d > 0), as a number literal n/d denotes it
Frac(n, d) ==
    LET g == GCD(Abs(n), d)
    IN  [t |-> "number", v |-> n \div g, den |-> d \div g]

Num(n) == [t |-> "number", v |-> n, den |-> 1]

\* how many doubles a number lies after the double nearest to its decimal
Ulps(a) == IF "ulps" \in DOMAIN a THEN a.ulps ELSE 0

\* the double `places` after the double nearest to n/d
Inexact(n, d, places) ==
    IF places = 0 THEN Frac(n, d)
    ELSE [t |-> "number", v |-> Frac(n, d).v, den |-> Frac(n, d).den, ulps |-> places]
Str(s) == [t |-> "string", v |-> s]
Bool(b) == [t |-> "boolean", v |-> b]
Null == [t |-> "null"]
Arr(s) == [t |-> "array", v |-> s]
Obj(o) == [t |-> "object", v |-> o]

EmptyObject == [k \in {} |-> Null]

\* { x, y }: a point as a caller gives it
Point(x, y) == Obj([x |-> Num(x), y |-> Num(y)])

IsString(x) == x.t = "string"
IsArray(x) == x.t = "array"

Has(o, k) == k \in DOMAIN o

\* ToBoolean: what `if (x)`, `!x`, `x && ...` and `x || y` test
Truthy(x) ==
    CASE x.t = "number" -> x.v # 0 \/ Ulps(x) # 0
      [] x.t = "string" -> x.v # ""
      [] x.t = "boolean" -> x.v
      [] x.t = "null" -> FALSE
      [] OTHER -> TRUE

\* o[k] ?? d : d when the key is undefined or null
Coalesce(o, k, d) == IF Has(o, k) /\ o[k] # Null THEN o[k] ELSE d

\* o[k] || d, for a key that is present
OrElse(x, d) == IF Truthy(x) THEN x ELSE d

\* a === b on primitives; two distinct arrays or objects are never ===
StrictEquals(a, b) == a.t \notin {"array", "object"} /\ a = b

\* { ...a, ...b }
Spread(a, b) == [k \in DOMAIN a \cup DOMAIN b |-> IF k \in DOMAIN b THEN b[k] ELSE a[k]]

\* the object without the keys in ks (delete o[k], rest destructuring)
Without(o, ks) == [k \in DOMAIN o \ ks |-> o[k]]

----------------------------------------------------------------------------
(* IEEE-754 binary64 arithmetic.  A significand is a natural number held   *)
(* as a sequence of limbs, least significant first.                        *)

Limb == 2^15
SignificandBits == 53

\* a * k + carry, for a small multiplier k
RECURSIVE BigTimes(_, _, _)
BigTimes(a, k, carry) ==
    IF a = <<>>
    THEN IF carry = 0 THEN <<>> ELSE <<carry % Limb>> \o BigTimes(<<>>, k, carry \div Limb)
    ELSE LET x == Head(a) * k + carry
         IN  <<x % Limb>> \o BigTimes(Tail(a), k, x \div Limb)

BigOf(n) == BigTimes(<<>>, 1, n)

\* a * 2^n
RECURSIVE BigShift(_, _)
BigShift(a, n) ==
    IF n = 0 THEN a
    ELSE IF n >= 15 THEN <<0>> \o BigShift(a, n - 15)
    ELSE BigTimes(a, 2^n, 0)

\* quotient and remainder of a by a small divisor d
RECURSIVE BigDivide(_, _)
BigDivide(a, d) ==
    IF a = <<>> THEN [quot |-> <<>>, rem |-> 0]
    ELSE LET high == BigDivide(Tail(a), d)
             x == high.rem * Limb + Head(a)
         IN  [quot |-> <<x \div d>> \o high.quot, rem |-> x % d]

\* a - n for a natural n <= a
RECURSIVE BigMinus(_, _)
BigMinus(a, n) ==
    IF n = 0 THEN a
    ELSE IF Head(a) >= (n % Limb)
    THEN <<Head(a) - (n % Limb)>> \o BigMinus(Tail(a), n \div Limb)
    ELSE <<Head(a) + Limb - (n % Limb)>> \o BigMinus(Tail(a), n \div Limb + 1)

RECURSIVE BitLength(_)
BitLength(n) == IF n = 0 THEN 0 ELSE 1 + BitLength(n \div 2)

RECURSIVE BigTrim(_)
BigTrim(a) == IF a # <<>> /\ a[Len(a)] = 0 THEN BigTrim(SubSeq(a, 1, Len(a) - 1)) ELSE a

BigBits(a) ==
    LET b == BigTrim(a)
    IN  IF b = <<>> THEN 0 ELSE 15 * (Len(b) - 1) + BitLength(b[Len(b)])

BigLimb(a, i) == IF i <= Len(a) THEN a[i] ELSE 0

\* a - b, for two naturals that lie close together
RECURSIVE BigDifference(_, _, _)
BigDifference(a, b, i) ==
    IF i > Len(a) /\ i > Len(b) THEN 0
    ELSE BigDifference(a, b, i + 1) * Limb + BigLimb(a, i) - BigLimb(b, i)

\* round to nearest, ties to even: the significand q with what was cut off,
\* rem out of unit
RoundToEven(q, rem, unit) ==
    IF 2 * rem > unit \/ (2 * rem = unit /\ BigLimb(q, 1) % 2 = 1)
    THEN BigTimes(q, 1, 1) ELSE q

\* a significand of up to 54 bits with its exponent, brought back to 53
Normalized(m, e) ==
    IF BigBits(m) > SignificandBits
    THEN [m |-> BigTrim(BigDivide(m, 2).quot), e |-> e + 1]
    ELSE [m |-> BigTrim(m), e |-> e]

\* the double nearest to n/d (n, d > 0): significand m of 53 bits, value m * 2^e
DoubleShift(n, d, shift) ==
    LET division == BigDivide(BigShift(BigOf(n), shift), d)
    IN  [quot |-> BigTrim(division.quot), rem |-> division.rem]
DoubleOf(n, d) ==
    LET wide == SignificandBits + BitLength(d) - BitLength(n)
        shift == IF BigBits(DoubleShift(n, d, wide).quot) > SignificandBits
                 THEN wide - 1 ELSE wide
        division == DoubleShift(n, d, shift)
    IN  Normalized(RoundToEven(division.quot, division.rem, d), -shift)

\* m + 2^52 and m - 2^52: a significand counted on from the start of the
\* binade below, and one counted from the start of its own binade
NextBinade(m) == [m EXCEPT ![4] = @ + 2^(SignificandBits - 1 - 3 * 15)]
PreviousBinade(m) == [m EXCEPT ![4] = @ - 2^(SignificandBits - 1 - 3 * 15)]

\* the double some places after the double m * 2^e: past the last double of
\* a binade the doubles lie twice as far apart
StepUp(m, e) ==
    IF BigBits(m) > SignificandBits THEN [m |-> PreviousBinade(m), e |-> e + 1]
    ELSE [m |-> m, e |-> e]

\* the double p places before the double m * 2^e: before the first double of
\* a binade the doubles lie half as far apart
StepDown(m, e, p) ==
    IF BigBits(BigMinus(m, p)) < SignificandBits
    THEN [m |-> BigMinus(NextBinade(m), p), e |-> e - 1]
    ELSE [m |-> BigMinus(m, p), e |-> e]

DoubleStep(x, places) ==
    IF places >= 0 THEN StepUp(BigTimes(x.m, 1, places), x.e)
    ELSE StepDown(x.m, x.e, -places)

\* the magnitude of the double a number value other than zero names
Significand(a) ==
    DoubleStep(DoubleOf(Abs(a.v), a.den), IF a.v < 0 THEN -Ulps(a) ELSE Ulps(a))

\* x * k rounded to a double, for a double x and a small positive integer k
DoubleTimes(x, k) ==
    LET product == BigTrim(BigTimes(x.m, k, 0))
        cut == BigBits(product) - SignificandBits
    IN  IF cut <= 0 THEN [m |-> product, e |-> x.e]
        ELSE LET division == BigDivide(product, 2^cut)
             IN  Normalized(RoundToEven(BigTrim(division.quot), division.rem, 2^cut),
                            x.e + cut)

\* how many doubles x lies after y, for two doubles at most one binade
\* apart: every binade holds 2^52 doubles
PlacesBetween(x, y) ==
    CASE x.e = y.e -> BigDifference(x.m, y.m, 1)
      [] x.e = y.e + 1 -> BigDifference(NextBinade(x.m), y.m, 1)
      [] x.e = y.e - 1 -> BigDifference(x.m, NextBinade(y.m), 1)

\* n/d with d a power of two is a double as it stands, and so is its product
\* with a small integer: nothing is rounded
IsExact(a) == Ulps(a) = 0 /\ a.den = 2^(BitLength(a.den) - 1)

\* the double `product` named by the decimal `exact` it lies next to; a has
\* the sign of the product
Rounded(a, exact, product) ==
    Inexact(exact.v, exact.den,
            IF a.v < 0 THEN -PlacesBetween(product, DoubleOf(Abs(exact.v), exact.den))
            ELSE PlacesBetween(product, DoubleOf(Abs(exact.v), exact.den)))

\* a * k for a number a and a positive integer literal k: the product of the
\* two doubles, rounded to a double. The doubles next to zero are the
\* multiples of the smallest one, and so are their products
Times(a, k) ==
    IF a.v = 0 THEN Inexact(0, 1, Ulps(a) * k)
    ELSE IF IsExact(a) THEN Frac(a.v * k, a.den)
    ELSE Rounded(a, Frac(a.v * k, a.den), DoubleTimes(Significand(a), k))

\* a <= b: by the decimals, and between numbers of one decimal by the places
LessEq(a, b) ==
    IF a.v * b.den = b.v * a.den THEN Ulps(a) <= Ulps(b)
    ELSE a.v * b.den < b.v * a.den
MathMin(a, b) == IF LessEq(a, b) THEN a ELSE b
MathMax(a, b) == IF LessEq(a, b) THEN b ELSE a

\* the letters String.prototype.toLowerCase changes in an ASCII string
UpperCaseLetters ==
    << "A", "B", "C", "D", "E", "F", "G", "H", "I", "J", "K", "L", "M",
       "N", "O", "P", "Q", "R", "S", "T", "U", "V", "W", "X", "Y", "Z" >>
LowerCaseLetters ==
    << "a", "b", "c", "d", "e", "f", "g", "h", "i", "j", "k", "l", "m",
       "n", "o", "p", "q", "r", "s", "t", "u", "v", "w", "x", "y", "z" >>

\* one character lowered: an upper-case letter becomes its lower-case letter,
\* every other character stays
LowerCaseMap ==
    [c \in {UpperCaseLetters[i] : i \in 1..Len(UpperCaseLetters)} |->
        LowerCaseLetters[CHOOSE i \in 1..Len(UpperCaseLetters) : UpperCaseLetters[i] = c]]
LowerCaseOf(c) == IF c \in DOMAIN LowerCaseMap THEN LowerCaseMap[c] ELSE c

\* String.prototype.toLowerCase, character by character (the strings the
\* requests carry are ASCII)
RECURSIVE toLowerCase(_)
toLowerCase(s) ==
    IF s = "" THEN ""
    ELSE LowerCaseOf(SubSeq(s, 1, 1)) \o toLowerCase(SubSeq(s, 2, Len(s)))

\* String.prototype.endsWith('.excalidraw'): the last eleven characters
endsWithExcalidraw(s) ==
    /\ Len(s) >= Len(".excalidraw")
    /\ SubSeq(s, Len(s) - Len(".excalidraw") + 1, Len(s)) = ".excalidraw"

----------------------------------------------------------------------------
(* Map operations (elements, sceneState.groups) *)

MapHas(m, k) == \E i \in 1..Len(m) : m[i].key = k
MapGet(m, k) == m[CHOOSE i \in 1..Len(m) : m[i].key = k].value
MapSet(m, k, x) ==
    IF MapHas(m, k)
    THEN [i \in 1..Len(m) |-> IF m[i].key = k THEN [key |-> k, value |-> x] ELSE m[i]]
    ELSE Append(m, [key |-> k, value |-> x])
MapDelete(m, k) == SelectSeq(m, LAMBDA e : e.key # k)
MapValues(m) == [i \in 1..Len(m) |-> m[i].value]
MapKeys(m) == {m[i].key : i \in 1..Len(m)}

----------------------------------------------------------------------------
(* types.js *)

EXCALIDRAW_ELEMENT_TYPES ==
    {"rectangle", "ellipse", "diamond", "text", "arrow", "line", "freedraw", "image", "frame"}

\* the n-th identifier generateId() returns: never one it returned before
generateId(n) == "id" \o ToString(n)

----------------------------------------------------------------------------
(* zod schemas: TRUE when parse accepts the object *)

\* z.<type>() on a key: the value's typeof
Required(o, k, type) == Has(o, k) /\ o[k].t = type
Optional(o, k, type) == ~Has(o, k) \/ o[k].t = type

\* z.enum(values)
RequiredEnum(o, k, values) == Has(o, k) /\ IsString(o[k]) /\ o[k].v \in values
OptionalEnum(o, k, values) == ~Has(o, k) \/ (IsString(o[k]) /\ o[k].v \in values)

\* z.object({ x: z.number(), y: z.number() })
IsPoint(p) == p.t = "object" /\ Required(p.v, "x", "number") /\ Required(p.v, "y", "number")

\* z.array(...)
IsPoints(x) == IsArray(x) /\ \A i \in 1..Len(x.v) : IsPoint(x.v[i])
IsStringArray(x) == IsArray(x) /\ \A i \in 1..Len(x.v) : IsString(x.v[i])

\* what z.object({ x, y }).parse returns for a point it accepts: a new object
\* with the two declared keys, every other key stripped
ParsedPoint(p) == Obj([k \in {"x", "y"} |-> p.v[k]])
ParsedPoints(points) == Arr([i \in 1..Len(points.v) |-> ParsedPoint(points.v[i])])

\* what <schema>.passthrough().parse returns for an object it accepts: the
\* declared keys parsed, the others copied, except that zod never copies an
\* own key named "__proto__"
PassthroughOutput(o) ==
    [k \in DOMAIN o \ {"__proto__"} |-> IF k = "points" THEN ParsedPoints(o[k]) ELSE o[k]]

\* what QuerySchema.parse returns: type and filter when given, the record
\* without an own key named "__proto__"
QueryOutput(o) ==
    [k \in DOMAIN o \cap {"type", "filter"} |->
        IF k = "filter" THEN Obj(Without(o[k].v, {"__proto__"})) ELSE o[k]]

\* the optional keys of ElementSchema, index.js:34-45
ElementSchemaOptionals(o) ==
    /\ Optional(o, "width", "number")
    /\ Optional(o, "height", "number")
    /\ ~Has(o, "points") \/ IsPoints(o.points)
    /\ Optional(o, "backgroundColor", "string")
    /\ Optional(o, "strokeColor", "string")
    /\ Optional(o, "strokeWidth", "number")
    /\ Optional(o, "roughness", "number")
    /\ Optional(o, "opacity", "number")
    /\ Optional(o, "text", "string")
    /\ Optional(o, "fontSize", "number")
    /\ Optional(o, "fontFamily", "number")
    /\ Optional(o, "locked", "boolean")

\* ElementSchema.passthrough()
ElementSchema(o) ==
    /\ RequiredEnum(o, "type", EXCALIDRAW_ELEMENT_TYPES)
    /\ Required(o, "x", "number")
    /\ Required(o, "y", "number")
    /\ ElementSchemaOptionals(o)

ElementIdSchema(o) == Required(o, "id", "string")

\* ElementSchema.partial().extend({ id: ElementIdSchema.shape.id }).passthrough()
ElementUpdateSchema(o) ==
    /\ OptionalEnum(o, "type", EXCALIDRAW_ELEMENT_TYPES)
    /\ Optional(o, "x", "number")
    /\ Optional(o, "y", "number")
    /\ ElementSchemaOptionals(o)
    /\ ElementIdSchema(o)

ElementIdsSchema(o) == Has(o, "elementIds") /\ IsStringArray(o.elementIds)

GroupIdSchema(o) == Required(o, "groupId", "string")

AlignElementsSchema(o) ==
    /\ Has(o, "elementIds") /\ IsStringArray(o.elementIds)
    /\ RequiredEnum(o, "alignment", {"left", "center", "right", "top", "middle", "bottom"})

DistributeElementsSchema(o) ==
    /\ Has(o, "elementIds") /\ IsStringArray(o.elementIds)
    /\ RequiredEnum(o, "direction", {"horizontal", "vertical"})

QuerySchema(o) ==
    /\ OptionalEnum(o, "type", EXCALIDRAW_ELEMENT_TYPES)
    /\ Optional(o, "filter", "object")

ResourceSchema(o) == RequiredEnum(o, "resource", {"scene", "library", "theme", "elements"})

SaveSceneSchema(o) == Optional(o, "filename", "string")

----------------------------------------------------------------------------
(* Handler outcomes *)

\* `return { content: [{ type: 'text', text: JSON.stringify(body) }] }`
Return(body) == [isError |-> FALSE, body |-> body]

\* a throw inside the try block, as the catch at index.js:643 reports it
Throw(kind, message) == [isError |-> TRUE, body |-> [error |-> kind, message |-> message]]

ZodError == Throw("ZodError", "invalid arguments")
TypeError == Throw("TypeError", "Cannot read properties of undefined")
NotFound(what, id) == Throw("Error", what \o " " \o id \o " not found")

HasArguments(req) == "arguments" \in DOMAIN req

----------------------------------------------------------------------------
(* case 'create_element' *)

\* what an object literal inherits from Object.prototype under a lower-case
\* name: the function Object as `constructor`, Object.prototype as `__proto__`
ObjectConstructor == [t |-> "function", v |-> "Object"]
ObjectPrototype == [t |-> "object", v |-> EmptyObject, intrinsic |-> "Object.prototype"]

\* fontMap[name.toLowerCase()] ?? fallback: the three own keys of the literal,
\* then the inherited ones; the fallback only for a name that finds neither
fontMap(name, fallback) ==
    LET lower == toLowerCase(name)
    IN  CASE lower = "virgil" -> Num(1)
          [] lower = "helvetica" -> Num(2)
          [] lower = "cascadia" -> Num(3)
          [] lower = "constructor" -> ObjectConstructor
          [] lower = "__proto__" -> ObjectPrototype
          [] OTHER -> fallback

\* index.js:294-297: a font name given as a string is replaced by its code
CreateFontFamily(args) ==
    IF Has(args, "fontFamily") /\ Truthy(args.fontFamily) /\ IsString(args.fontFamily)
    THEN [args EXCEPT !.fontFamily = fontMap(args.fontFamily.v, Num(1))]
    ELSE args

\* mutant of ClampOpacity: rescaled but not clamped
ClampOpacityUnclamped(opacity) == Times(opacity, 100)

\* Math.max(0, Math.min(100, opacity * 100))
ClampOpacity(opacity) == MathMax(Num(0), MathMin(Num(100), Times(opacity, 100)))

CreateOpacity(params) ==
    IF Has(params, "opacity") THEN ClampOpacity(params.opacity) ELSE Num(100)

\* the object literal of index.js:305-347, without the `points` key
ElementLiteral(params, id, now, seed, versionNonce) ==
    [ id |-> Str(id),
      type |-> params.type,
      x |-> params.x,
      y |-> params.y,
      width |-> Coalesce(params, "width", Num(10)),
      height |-> Coalesce(params, "height", Num(10)),
      seed |-> Num(seed),
      version |-> Num(1),
      versionNonce |-> Num(versionNonce),
      isDeleted |-> Bool(FALSE),
      locked |-> Coalesce(params, "locked", Bool(FALSE)),
      angle |-> Coalesce(params, "angle", Num(0)),
      fillStyle |-> Coalesce(params, "fillStyle", Str("hachure")),
      strokeWidth |-> Coalesce(params, "strokeWidth", Num(1)),
      strokeStyle |-> Coalesce(params, "strokeStyle", Str("solid")),
      roughness |-> Coalesce(params, "roughness", Num(1)),
      opacity |-> CreateOpacity(params),
      groupIds |-> Arr(<<>>),
      frameId |-> Null,
      roundness |-> Coalesce(params, "roundness", Null),
      boundElements |-> Null,
      link |-> Null,
      updated |-> Num(now),
      strokeColor |-> Coalesce(params, "strokeColor", Str("#000000")),
      backgroundColor |-> Coalesce(params, "backgroundColor", Str("transparent")),
      text |-> Coalesce(params, "text", Str("")),
      fontSize |-> Coalesce(params, "fontSize", Num(20)),
      fontFamily |-> Coalesce(params, "fontFamily", Num(1)),
      textAlign |-> Coalesce(params, "textAlign", Str("center")),
      verticalAlign |-> Coalesce(params, "verticalAlign", Str("middle")),
      containerId |-> Null,
      originalText |-> Coalesce(params, "text", Str("")),
      startBinding |-> Null,
      endBinding |-> Null,
      lastCommittedPoint |-> Null,
      startArrowhead |-> Null,
      endArrowhead |-> Null,
      fileId |-> Null,
      scale |-> Arr(<<Num(1), Num(1)>>),
      status |-> Str("saved") ]

\* mutant of NewElement: an id the caller supplies is kept
NewElementCallerId(params, id, now, seed, versionNonce) ==
    LET literal == ElementLiteral(params, id, now, seed, versionNonce)
        named == IF Has(params, "id") THEN [literal EXCEPT !.id = params.id] ELSE literal
    IN  IF Has(params, "points") THEN Spread(named, [points |-> params.points]) ELSE named

\* mutant of NewElement: versions counted from 0
NewElementCountsFromZero(params, id, now, seed, versionNonce) ==
    LET literal == [ElementLiteral(params, id, now, seed, versionNonce) EXCEPT !.version = Num(0)]
    IN  IF Has(params, "points") THEN Spread(literal, [points |-> params.points]) ELSE literal

\* index.js:305-347 and 357-359: `points: params.points` is a key of the
\* literal only when the caller gave points (an undefined key is deleted)
NewElement(params, id, now, seed, versionNonce) ==
    LET literal == ElementLiteral(params, id, now, seed, versionNonce)
    IN  IF Has(params, "points") THEN Spread(literal, [points |-> params.points]) ELSE literal

\* (type === 'arrow' || type === 'line') && (!points || points.length < 2)
NeedsPoints(el) ==
    /\ el.type \in {Str("arrow"), Str("line")}
    /\ ~Has(el, "points") \/ ~Truthy(el.points) \/ Len(el.points.v) < 2

\* [[0, 0], [el.width || 10, el.height || 0]]
DefaultPoints(el) ==
    Arr(<< Arr(<<Num(0), Num(0)>>),
           Arr(<<OrElse(el.width, Num(10)), OrElse(el.height, Num(0))>>) >>)

\* index.js:351-354
DefaultArrowheads(el) ==
    IF el.type = Str("arrow")
    THEN [el EXCEPT !.startArrowhead = Coalesce(el, "startArrowhead", Null),
                    !.endArrowhead = Coalesce(el, "endArrowhead", Str("arrow"))]
    ELSE el

\* index.js:349-355
EnsurePoints(el) ==
    IF NeedsPoints(el)
    THEN DefaultArrowheads(Spread(el, [points |-> DefaultPoints(el)]))
    ELSE el

\* the handler's outcome: its response and the store it leaves
Outcome(res, els, groups, ids) == [res |-> res, elements |-> els, groups |-> groups, nextId |-> ids]
Unchanged(res) == Outcome(res, elements, sceneState.groups, nextId)

create_element(req, now, seed, versionNonce) ==
    IF ~HasArguments(req) THEN Unchanged(TypeError)
    ELSE LET args == CreateFontFamily(req.arguments)
             params == PassthroughOutput(args)
             id == generateId(nextId + 1)
             element == EnsurePoints(NewElement(params, id, now, seed, versionNonce))
         IN  IF ~ElementSchema(args) THEN Unchanged(ZodError)
             ELSE Outcome(Return([id |-> element.id, type |-> element.type, created |-> Bool(TRUE)]),
                          MapSet(elements, id, element), sceneState.groups, nextId + 1)

----------------------------------------------------------------------------
(* case 'update_element' *)

\* index.js:376-379
UpdateFontFamily(updates, existingElement) ==
    IF Has(updates, "fontFamily") /\ IsString(updates.fontFamily)
    THEN [updates EXCEPT !.fontFamily = fontMap(updates.fontFamily.v, existingElement.fontFamily)]
    ELSE updates

\* index.js:381-383
UpdateOpacity(updates) ==
    IF Has(updates, "opacity")
    THEN [updates EXCEPT !.opacity = ClampOpacity(updates.opacity)]
    ELSE updates

\* (existingElement.version || 0) + 1
NextVersion(existingElement) ==
    LET version == IF Has(existingElement, "version")
                   THEN OrElse(existingElement.version, Num(0)) ELSE Num(0)
    IN  Frac(version.v + version.den, version.den)

\* mutant of PotentialNewElement: the caller's fields spread after the version
PotentialNewElementPatchLast(existingElement, updates, now, versionNonce) ==
    Without(Spread(Spread(existingElement,
                          [version |-> NextVersion(existingElement),
                           versionNonce |-> Num(versionNonce),
                           updated |-> Num(now)]),
                   updates),
            {"createdAt", "updatedAt"})

\* index.js:385-395
PotentialNewElement(existingElement, updates, now, versionNonce) ==
    Without(Spread(Spread(existingElement, updates),
                   [version |-> NextVersion(existingElement),
                    versionNonce |-> Num(versionNonce),
                    updated |-> Num(now)]),
            {"createdAt", "updatedAt"})

\* mutant of update_element: an unknown id is stored before it is reported
update_element_upsert(req, now, versionNonce) ==
    IF ~HasArguments(req) \/ ~ElementUpdateSchema(req.arguments) THEN Unchanged(ZodError)
    ELSE LET id == req.arguments.id.v
             existingElement == IF MapHas(elements, id) THEN MapGet(elements, id)
                                ELSE [id |-> Str(id)]
             potentialNewElement ==
                 PotentialNewElement(existingElement,
                                     Without(PassthroughOutput(req.arguments), {"id"}),
                                     now, versionNonce)
         IN  Outcome(IF MapHas(elements, id)
                     THEN Return([id |-> potentialNewElement.id,
                                  updated |-> Bool(TRUE),
                                  version |-> potentialNewElement.version])
                     ELSE NotFound("Element with ID", id),
                     MapSet(elements, id, potentialNewElement), sceneState.groups, nextId)

update_element(req, now, versionNonce) ==
    IF ~HasArguments(req) \/ ~ElementUpdateSchema(req.arguments) THEN Unchanged(ZodError)
    ELSE LET rawParams == PassthroughOutput(req.arguments)
             id == rawParams.id.v
             updates == Without(rawParams, {"id"})
         IN  IF ~Truthy(rawParams.id) THEN Unchanged(Throw("Error", "Element ID is required"))
             ELSE IF ~MapHas(elements, id) THEN Unchanged(NotFound("Element with ID", id))
             ELSE LET existingElement == MapGet(elements, id)
                      patch == UpdateOpacity(UpdateFontFamily(updates, existingElement))
                      potentialNewElement ==
                          PotentialNewElement(existingElement, patch, now, versionNonce)
                  IN  Outcome(Return([id |-> potentialNewElement.id,
                                      updated |-> Bool(TRUE),
                                      version |-> potentialNewElement.version]),
                              MapSet(elements, id, potentialNewElement),
                              sceneState.groups, nextId)

----------------------------------------------------------------------------
(* case 'delete_element' *)

\* mutant of delete_element: the record is marked isDeleted and kept
delete_element_tombstone(req) ==
    IF ~HasArguments(req) \/ ~ElementIdSchema(req.arguments) THEN Unchanged(ZodError)
    ELSE LET id == req.arguments.id.v
         IN  IF ~MapHas(elements, id) THEN Unchanged(NotFound("Element with ID", id))
             ELSE Outcome(Return([id |-> Str(id), deleted |-> Bool(TRUE)]),
                          MapSet(elements, id,
                                 Spread(MapGet(elements, id), [isDeleted |-> Bool(TRUE)])),
                          sceneState.groups, nextId)

delete_element(req) ==
    IF ~HasArguments(req) \/ ~ElementIdSchema(req.arguments) THEN Unchanged(ZodError)
    ELSE LET id == req.arguments.id.v
         IN  IF ~MapHas(elements, id) THEN Unchanged(NotFound("Element with ID", id))
             ELSE Outcome(Return([id |-> Str(id), deleted |-> Bool(TRUE)]),
                          MapDelete(elements, id), sceneState.groups, nextId)

----------------------------------------------------------------------------
(* case 'query_elements' *)

\* mutant of FilterMatches: `some` in place of `every`
FilterMatchesSome(element, filter) ==
    \E key \in DOMAIN filter : Has(element, key) /\ StrictEquals(element[key], filter[key])

\* Object.entries(filter).every(([key, value]) => element[key] === value)
FilterMatches(element, filter) ==
    \A key \in DOMAIN filter : Has(element, key) /\ StrictEquals(element[key], filter[key])

\* results.filter(element => element.type === type)
FilterByType(results, args) ==
    IF Has(args, "type") /\ Truthy(args.type)
    THEN SelectSeq(results, LAMBDA element : StrictEquals(element.type, args.type))
    ELSE results

\* results.filter(element => every filter entry matches)
FilterByFilter(results, args) ==
    IF Has(args, "filter")
    THEN SelectSeq(results, LAMBDA element : FilterMatches(element, args.filter.v))
    ELSE results

\* `args || {}`
ArgsOrEmpty(req) == IF HasArguments(req) THEN req.arguments ELSE EmptyObject

query_elements(req) ==
    LET args == ArgsOrEmpty(req)
        params == QueryOutput(args)
    IN  IF ~QuerySchema(args) THEN Unchanged(ZodError)
        ELSE Unchanged(Return(Arr(FilterByFilter(FilterByType(MapValues(elements), params),
                                                 params))))

----------------------------------------------------------------------------
(* case 'get_resource' *)

get_resource(req) ==
    IF ~HasArguments(req) \/ ~ResourceSchema(req.arguments) THEN Unchanged(ZodError)
    ELSE LET resource == req.arguments.resource.v
         IN  Unchanged(Return(
               CASE resource = "scene" ->
                      [theme |-> sceneState.theme,
                       viewport |-> sceneState.viewport,
                       selectedElements |-> sceneState.selectedElements]
                 [] resource = "theme" -> [theme |-> sceneState.theme]
                 [] resource \in {"library", "elements"} ->
                      [elements |-> MapValues(elements)]))

----------------------------------------------------------------------------
(* case 'group_elements' / 'ungroup_elements' *)

\* mutant of group_elements: every member must be a stored element
group_elements_checks(req) ==
    IF ~HasArguments(req) \/ ~ElementIdsSchema(req.arguments) THEN Unchanged(ZodError)
    ELSE LET elementIds == req.arguments.elementIds
             groupId == generateId(nextId + 1)
             missing == {i \in 1..Len(elementIds.v) : ~MapHas(elements, elementIds.v[i].v)}
         IN  IF missing # {}
             THEN Unchanged(NotFound("Element with ID", elementIds.v[CHOOSE i \in missing : TRUE].v))
             ELSE Outcome(Return([groupId |-> Str(groupId), elementIds |-> elementIds]),
                          elements, MapSet(sceneState.groups, groupId, elementIds), nextId + 1)

group_elements(req) ==
    IF ~HasArguments(req) \/ ~ElementIdsSchema(req.arguments) THEN Unchanged(ZodError)
    ELSE LET elementIds == req.arguments.elementIds
             groupId == generateId(nextId + 1)
         IN  Outcome(Return([groupId |-> Str(groupId), elementIds |-> elementIds]),
                     elements, MapSet(sceneState.groups, groupId, elementIds), nextId + 1)

\* mutant of ungroup_elements: the registry entry is returned but kept
ungroup_elements_keeps(req) ==
    IF ~HasArguments(req) \/ ~GroupIdSchema(req.arguments) THEN Unchanged(ZodError)
    ELSE LET groupId == req.arguments.groupId.v
         IN  IF ~MapHas(sceneState.groups, groupId) THEN Unchanged(NotFound("Group", groupId))
             ELSE Unchanged(Return([groupId |-> Str(groupId),
                                    ungrouped |-> Bool(TRUE),
                                    elementIds |-> MapGet(sceneState.groups, groupId)]))

ungroup_elements(req) ==
    IF ~HasArguments(req) \/ ~GroupIdSchema(req.arguments) THEN Unchanged(ZodError)
    ELSE LET groupId == req.arguments.groupId.v
         IN  IF ~MapHas(sceneState.groups, groupId) THEN Unchanged(NotFound("Group", groupId))
             ELSE Outcome(Return([groupId |-> Str(groupId),
                                  ungrouped |-> Bool(TRUE),
                                  elementIds |-> MapGet(sceneState.groups, groupId)]),
                          elements, MapDelete(sceneState.groups, groupId), nextId)

----------------------------------------------------------------------------
(* case 'align_elements' / 'distribute_elements': the arguments are logged *)
(* and echoed, the store is not read                                       *)

align_elements(req) ==
    IF ~HasArguments(req) \/ ~AlignElementsSchema(req.arguments) THEN Unchanged(ZodError)
    ELSE Unchanged(Return([aligned |-> Bool(TRUE),
                           elementIds |-> req.arguments.elementIds,
                           alignment |-> req.arguments.alignment]))

distribute_elements(req) ==
    IF ~HasArguments(req) \/ ~DistributeElementsSchema(req.arguments) THEN Unchanged(ZodError)
    ELSE Unchanged(Return([distributed |-> Bool(TRUE),
                           elementIds |-> req.arguments.elementIds,
                           direction |-> req.arguments.direction]))

----------------------------------------------------------------------------
(* case 'lock_elements' / 'unlock_elements' *)

\* mutant of SetLocked: locking counts as an edit and bumps the version
SetLockedBumpsVersion(els, id, locked) ==
    IF MapHas(els, id)
    THEN MapSet(els, id, Spread(MapGet(els, id),
                                [locked |-> Bool(locked),
                                 version |-> Num(MapGet(els, id).version.v + 1)]))
    ELSE els

\* const element = elements.get(id); if (element) element.locked = locked;
SetLocked(els, id, locked) ==
    IF MapHas(els, id)
    THEN MapSet(els, id, Spread(MapGet(els, id), [locked |-> Bool(locked)]))
    ELSE els

\* elementIds.forEach(id => ...)
RECURSIVE ForEachSetLocked(_, _, _)
ForEachSetLocked(els, elementIds, locked) ==
    IF elementIds = <<>> THEN els
    ELSE ForEachSetLocked(SetLocked(els, Head(elementIds).v, locked), Tail(elementIds), locked)

lock_elements(req) ==
    IF ~HasArguments(req) \/ ~ElementIdsSchema(req.arguments) THEN Unchanged(ZodError)
    ELSE LET elementIds == req.arguments.elementIds
         IN  Outcome(Return([locked |-> Bool(TRUE), elementIds |-> elementIds]),
                     ForEachSetLocked(elements, elementIds.v, TRUE), sceneState.groups, nextId)

unlock_elements(req) ==
    IF ~HasArguments(req) \/ ~ElementIdsSchema(req.arguments) THEN Unchanged(ZodError)
    ELSE LET elementIds == req.arguments.elementIds
         IN  Outcome(Return([unlocked |-> Bool(TRUE), elementIds |-> elementIds]),
                     ForEachSetLocked(elements, elementIds.v, FALSE), sceneState.groups, nextId)

----------------------------------------------------------------------------
(* case 'save_scene', up to the `await fs.writeFile(...)` *)

\* params.filename || 'mcp_scene.excalidraw'
Filename(params) ==
    IF Has(params, "filename") /\ Truthy(params.filename)
    THEN params.filename.v ELSE "mcp_scene.excalidraw"

\* mutant of RepairPoints: elements are written as stored
RepairPointsSkipped(el) == el

\* mutant of RepairPoints: the repair counts as an edit of the element
RepairPointsBumpsVersion(el) ==
    IF NeedsPoints(el)
    THEN Spread(el, [points |-> DefaultPoints(el), version |-> Num(el.version.v + 1)])
    ELSE el

\* index.js:586-592: the map callback assigns el.points on the stored object
RepairPoints(el) == IF NeedsPoints(el) THEN Spread(el, [points |-> DefaultPoints(el)]) ELSE el

RepairedElements(els) ==
    [i \in 1..Len(els) |-> [key |-> els[i].key, value |-> RepairPoints(els[i].value)]]

\* mutant of SelectedElementIds: every group key is written as selected
SelectedElementIdsOfGroups(scene) == [id \in MapKeys(scene.groups) |-> Bool(TRUE)]

\* index.js:580-583
SelectedElementIds(scene) ==
    [id \in {scene.selectedElements[i] : i \in 1..Len(scene.selectedElements)} |-> Bool(TRUE)]

\* index.js:594-623, as JSON.stringify fixes it before the write starts
SceneData(els, scene) ==
    [ type |-> "excalidraw",
      version |-> 2,
      source |-> "mcp-server",
      elements |-> MapValues(els),
      appState |->
        [ viewBackgroundColor |-> scene.viewBackgroundColor,
          scrollX |-> scene.viewport.x,
          scrollY |-> scene.viewport.y,
          zoom |-> [value |-> scene.viewport.zoom],
          selectedElementIds |-> SelectedElementIds(scene),
          gridSize |-> Null,
          zenModeEnabled |-> Bool(FALSE),
          editingGroupId |-> Null,
          theme |-> scene.theme,
          currentItemStrokeColor |-> Str("#000000"),
          currentItemBackgroundColor |-> Str("transparent"),
          currentItemFillStyle |-> Str("hachure"),
          currentItemStrokeWidth |-> Num(1),
          currentItemStrokeStyle |-> Str("solid"),
          currentItemRoughness |-> Num(1),
          currentItemOpacity |-> Num(100),
          currentItemFontFamily |-> Num(1),
          currentItemFontSize |-> Num(20),
          currentItemTextAlign |-> Str("center"),
          currentItemStartArrowhead |-> Null,
          currentItemEndArrowhead |-> Str("arrow") ],
      files |-> EmptyObject ]

\* the outcome of the synchronous part: either a throw, or the write to start
save_scene(req) ==
    LET args == ArgsOrEmpty(req)
    IN  IF ~SaveSceneSchema(args) THEN [write |-> FALSE, out |-> Unchanged(ZodError)]
        ELSE IF ~endsWithExcalidraw(Filename(args))
        THEN [write |-> FALSE,
              out |-> Unchanged(Throw("Error", "Filename must end with .excalidraw"))]
        ELSE LET repaired == RepairedElements(elements)
             IN  [write |-> TRUE,
                  filename |-> Filename(args),
                  data |-> SceneData(repaired, sceneState),
                  out |-> Outcome(Return([text |-> "Scene saved successfully to " \o Filename(args)]),
                                  repaired, sceneState.groups, nextId)]

\* mutant of unknown_tool: an unknown name is answered with an empty payload
unknown_tool_ignored(req) == Unchanged(Return(EmptyObject))

\* default: throw new Error(`Unknown tool: ${name}`)
unknown_tool(req) == Unchanged(Throw("Error", "Unknown tool: " \o req.name))

----------------------------------------------------------------------------
(* Bounds *)

MaxIds == 2        \* identifiers generateId() hands out in one run of the lifecycle
MaxSceneIds == 1   \* identifiers handed out in one run of the whole handler
MaxCreations == 2  \* elements created, one at a time, in one run of the creation specification
MaxQueried == 3    \* elements created in one run of the query specification
MaxLaidOut == 3    \* elements created in one run of the layout specification
MaxUpdates == 2    \* successful updates of one element
MaxPending == 1    \* save_scene calls waiting for their write at one time
MaxEdited == 2     \* identifiers handed out while one element at a time is edited
MaxGrouped == 3    \* identifiers handed out while groups are made and dissolved

----------------------------------------------------------------------------
(* The state machine *)

Init ==
    /\ elements = <<>>
    /\ sceneState = [ theme |-> Str("light"),
                      viewBackgroundColor |-> Str("#ffffff"),
                      viewport |-> [x |-> Num(0), y |-> Num(0), zoom |-> Num(1)],
                      selectedElements |-> <<>>,
                      groups |-> <<>> ]
    /\ nextId = 0
    /\ pendingWrites = <<>>
    /\ files = EmptyObject
    /\ result = [request |-> [name |-> "none"], isError |-> FALSE, body |-> EmptyObject]
    /\ updateCount = EmptyObject
    /\ deleted = {}

\* request.params: a tool name with an argument bag, or with none
Requests(name, Args) == {[name |-> name, arguments |-> a] : a \in Args} \cup {[name |-> name]}

Response(req, res) == [request |-> req, isError |-> res.isError, body |-> res.body]

\* the handler returns: the store is as the case left it
Respond(req, out) ==
    /\ elements' = out.elements
    /\ sceneState' = [sceneState EXCEPT !.groups = out.groups]
    /\ nextId' = out.nextId
    /\ result' = Response(req, out.res)

\* whether create_element gets past ElementSchema...parse (index.js:294-299)
CreateParses(req) == HasArguments(req) /\ ElementSchema(CreateFontFamily(req.arguments))

CreateElement(In) ==
    \E req \in Requests("create_element", In.createArgs) :
        /\ CreateParses(req) => nextId < In.maxIds /\ Len(elements) < In.maxElements
        /\ \E now \in In.clock, seed \in In.random, versionNonce \in In.random :
            LET out == create_element(req, now, seed, versionNonce)
            IN  /\ Respond(req, out)
                /\ updateCount' = IF out.res.isError THEN updateCount
                                  ELSE (generateId(out.nextId) :> 0) @@ updateCount
                /\ UNCHANGED <<pendingWrites, files, deleted>>

UpdateElement(In) ==
    \E req \in Requests("update_element", In.updateArgs),
       now \in In.clock, versionNonce \in In.random :
        LET out == update_element(req, now, versionNonce)
            id == req.arguments.id.v
        IN  /\ IF out.res.isError THEN TRUE ELSE updateCount[id] < MaxUpdates
            /\ Respond(req, out)
            /\ updateCount' = IF out.res.isError THEN updateCount
                              ELSE [updateCount EXCEPT ![id] = @ + 1]
            /\ UNCHANGED <<pendingWrites, files, deleted>>

DeleteElement(In) ==
    \E req \in Requests("delete_element", In.idArgs) :
        LET out == delete_element(req)
            id == req.arguments.id.v
        IN  /\ Respond(req, out)
            /\ updateCount' = IF out.res.isError THEN updateCount
                              ELSE [k \in DOMAIN updateCount \ {id} |-> updateCount[k]]
            /\ deleted' = IF out.res.isError THEN deleted ELSE deleted \cup {id}
            /\ UNCHANGED <<pendingWrites, files>>

QueryElements(In) ==
    \E req \in Requests("query_elements", In.queryArgs) :
        /\ Respond(req, query_elements(req))
        /\ UNCHANGED <<pendingWrites, files, updateCount, deleted>>

GetResource(In) ==
    \E req \in Requests("get_resource", In.resourceArgs) :
        /\ Respond(req, get_resource(req))
        /\ UNCHANGED <<pendingWrites, files, updateCount, deleted>>

GroupElements(In) ==
    \E req \in Requests("group_elements", In.idsArgs) :
        LET out == group_elements(req)
        IN  /\ ~out.res.isError => nextId < In.maxIds
            /\ Respond(req, out)
            /\ UNCHANGED <<pendingWrites, files, updateCount, deleted>>

UngroupElements(In) ==
    \E req \in Requests("ungroup_elements", In.groupArgs) :
        /\ Respond(req, ungroup_elements(req))
        /\ UNCHANGED <<pendingWrites, files, updateCount, deleted>>

AlignElements(In) ==
    \E req \in Requests("align_elements", In.alignArgs) :
        /\ Respond(req, align_elements(req))
        /\ UNCHANGED <<pendingWrites, files, updateCount, deleted>>

DistributeElements(In) ==
    \E req \in Requests("distribute_elements", In.distributeArgs) :
        /\ Respond(req, distribute_elements(req))
        /\ UNCHANGED <<pendingWrites, files, updateCount, deleted>>

LockElements(In) ==
    \E req \in Requests("lock_elements", In.idsArgs) :
        /\ Respond(req, lock_elements(req))
        /\ UNCHANGED <<pendingWrites, files, updateCount, deleted>>

UnlockElements(In) ==
    \E req \in Requests("unlock_elements", In.idsArgs) :
        /\ Respond(req, unlock_elements(req))
        /\ UNCHANGED <<pendingWrites, files, updateCount, deleted>>

\* save_scene runs to its `await`: a throw answers at once, otherwise the
\* elements are repaired in place and the serialized scene is handed to writeFile.
\* Runs are followed while at most MaxPending writes are in flight and until a
\* write has left a file. Each write in flight remembers, as `before`, the
\* repository as the call found it.
SaveScene(In) ==
    \E req \in Requests("save_scene", In.saveArgs) :
        LET save == save_scene(req)
        IN  IF save.write
            THEN /\ Len(pendingWrites) < MaxPending
                 /\ files = EmptyObject
                 /\ pendingWrites' = Append(pendingWrites,
                        [request |-> req, filename |-> save.filename, data |-> save.data,
                         res |-> save.out.res, before |-> elements])
                 /\ elements' = save.out.elements
                 /\ UNCHANGED <<sceneState, nextId, files, result, updateCount, deleted>>
            ELSE /\ Respond(req, save.out)
                 /\ UNCHANGED <<pendingWrites, files, updateCount, deleted>>

RemoveAt(seq, i) == [j \in 1..(Len(seq) - 1) |-> IF j < i THEN seq[j] ELSE seq[j + 1]]

\* mutant of WriteFileResolves: the scene is serialized when the write completes
WriteFileResolvesLate ==
    \E i \in 1..Len(pendingWrites) :
        LET w == pendingWrites[i]
        IN  /\ files' = (w.filename :> SceneData(elements, sceneState)) @@ files
            /\ result' = Response(w.request, w.res)
            /\ pendingWrites' = RemoveAt(pendingWrites, i)
            /\ UNCHANGED <<elements, sceneState, nextId, updateCount, deleted>>

\* fs.writeFile resolves: index.js:627-630
WriteFileResolves ==
    \E i \in 1..Len(pendingWrites) :
        LET w == pendingWrites[i]
        IN  /\ files' = (w.filename :> w.data) @@ files
            /\ result' = Response(w.request, w.res)
            /\ pendingWrites' = RemoveAt(pendingWrites, i)
            /\ UNCHANGED <<elements, sceneState, nextId, updateCount, deleted>>

\* mutant of WriteFileRejects: the failure is reported without the cause
WriteFileRejectsSilently(In) ==
    \E i \in 1..Len(pendingWrites), message \in In.ioErrors, partial \in BOOLEAN :
        LET w == pendingWrites[i]
        IN  /\ files' = IF partial
                        THEN (w.filename :> [type |-> "partial"]) @@ files
                        ELSE files
            /\ result' = Response(w.request,
                                  [isError |-> TRUE, body |-> [text |-> "Error saving scene"]])
            /\ pendingWrites' = RemoveAt(pendingWrites, i)
            /\ UNCHANGED <<elements, sceneState, nextId, updateCount, deleted>>

\* fs.writeFile rejects: index.js:631-637; the file is untouched or left partial
WriteFileRejects(In) ==
    \E i \in 1..Len(pendingWrites), message \in In.ioErrors, partial \in BOOLEAN :
        LET w == pendingWrites[i]
        IN  /\ files' = IF partial
                        THEN (w.filename :> [type |-> "partial"]) @@ files
                        ELSE files
            /\ result' = Response(w.request,
                                  [isError |-> TRUE,
                                   body |-> [text |-> "Error saving scene: " \o message]])
            /\ pendingWrites' = RemoveAt(pendingWrites, i)
            /\ UNCHANGED <<elements, sceneState, nextId, updateCount, deleted>>

UnknownTool(In) ==
    \E req \in Requests("draw_unicorn", In.unknownArgs) :
        /\ Respond(req, unknown_tool(req))
        /\ UNCHANGED <<pendingWrites, files, updateCount, deleted>>

----------------------------------------------------------------------------
(* Requests of the lifecycle specification *)

\* identifiers a request can name: every one generateId() can return, and a stranger
KnownIds(n) == {generateId(i) : i \in 1..n}

WithId(id, patch) == Spread(patch, [id |-> Str(id)])

LifecycleCreateArgs ==
    { [type |-> Str("rectangle"), x |-> Num(10), y |-> Num(0)],
      [type |-> Str("arrow"), x |-> Num(50), y |-> Num(0), locked |-> Bool(TRUE),
       opacity |-> Frac(1, 2)],
      [type |-> Str("rectangle"), y |-> Num(0)],
      [type |-> Str("unicorn"), x |-> Num(10), y |-> Num(0)] }

LifecyclePatches ==
    { [x |-> Num(50)],
      [opacity |-> Frac(3, 2), version |-> Num(9)],
      [width |-> Str("wide")] }

LifecycleIdLists == { <<"id1">>, <<"id2", "nope">> }

IdsArgs(lists) == {[elementIds |-> Arr([i \in 1..Len(l) |-> Str(l[i])])] : l \in lists}

Lifecycle ==
    [ createArgs |-> LifecycleCreateArgs,
      updateArgs |-> {WithId(id, p) : id \in {"id1", "id2", "nope"}, p \in LifecyclePatches},
      idArgs |-> {[id |-> Str(id)] : id \in {"id1", "id2", "nope"}},
      queryArgs |-> { [type |-> Str("arrow"), filter |-> Obj([locked |-> Bool(TRUE)])] },
      resourceArgs |-> {[resource |-> Str("elements")]},
      idsArgs |-> IdsArgs(LifecycleIdLists),
      groupArgs |-> {[groupId |-> Str("id2")]},
      alignArgs |-> {},
      distributeArgs |-> {},
      unknownArgs |-> {},
      clock |-> {1000},
      random |-> {7},
      maxIds |-> MaxIds,
      maxElements |-> MaxIds ]

\* the tools that work on the repository and the group registry alone
RepositoryTools(In) ==
    \/ CreateElement(In)
    \/ UpdateElement(In)
    \/ DeleteElement(In)
    \/ QueryElements(In)
    \/ GetResource(In)
    \/ GroupElements(In)
    \/ UngroupElements(In)
    \/ AlignElements(In)
    \/ DistributeElements(In)
    \/ LockElements(In)
    \/ UnlockElements(In)
    \/ UnknownTool(In)

NextRepository == RepositoryTools(Lifecycle)

SpecRepository == Init /\ [][NextRepository]_vars

----------------------------------------------------------------------------
(* The whole handler, with the scene written to disk *)

Scene ==
    [ createArgs |->
        { [type |-> Str("rectangle"), x |-> Num(10), y |-> Num(0), id |-> Str("mine")] },
      updateArgs |->
        { WithId("id1", [type |-> Str("arrow")]),
          WithId("id1", [points |-> Arr(<<Point(1, 1)>>)]) },
      idArgs |-> {[id |-> Str("id1")]},
      queryArgs |-> {},
      resourceArgs |-> {},
      idsArgs |-> IdsArgs({<<"id1">>}),
      groupArgs |-> {},
      alignArgs |-> {},
      distributeArgs |-> {},
      saveArgs |-> {[filename |-> Str("a.txt")]},
      unknownArgs |-> {},
      ioErrors |-> {"ENOSPC: no space left on device"},
      clock |-> {1000},
      random |-> {7},
      maxIds |-> MaxSceneIds,
      maxElements |-> 1 ]

Next ==
    \/ RepositoryTools(Scene)
    \/ SaveScene(Scene)
    \/ WriteFileResolves
    \/ WriteFileRejects(Scene)

Spec == Init /\ [][Next]_vars

----------------------------------------------------------------------------
(* Creation over a wide range of argument bags, one element at a time *)

\* one bag per optional or pass-through key, given alone
SingleFields ==
    { [backgroundColor |-> Str("#f3f3f3")], [strokeColor |-> Str("#333")],
      [strokeWidth |-> Num(4)], [strokeStyle |-> Str("dashed")],
      [fillStyle |-> Str("solid")], [roughness |-> Num(0)],
      [opacity |-> Frac(1, 2)], [opacity |-> Frac(6, 5)], [opacity |-> Num(0)],
      [opacity |-> Frac(-1, 2)], [opacity |-> Frac(7, 100)],
      [opacity |-> Inexact(1, 2, -1)],
      [text |-> Str("hello")], [fontSize |-> Num(36)],
      [fontFamily |-> Num(3)], [fontFamily |-> Str("HELVETICA")],
      [fontFamily |-> Str("Helvetica")], [fontFamily |-> Str("Comic")],
      [fontFamily |-> Str("constructor")], "__proto__" :> Num(5),
      [textAlign |-> Str("left")], [verticalAlign |-> Str("top")],
      [locked |-> Bool(TRUE)], [angle |-> Num(90)], [angle |-> Null],
      [version |-> Num(5)], [isDeleted |-> Bool(TRUE)], [seed |-> Num(1)],
      [id |-> Str("mine")], [startArrowhead |-> Str("dot")],
      [endArrowhead |-> Str("bar")] }

\* width, height and points, each given or omitted
Geometry ==
    { Spread(Spread(w, h), p) :
        w \in {EmptyObject, [width |-> Num(0)], [width |-> Num(30)],
               [width |-> Inexact(0, 1, 1)]},
        h \in {EmptyObject, [height |-> Num(0)], [height |-> Num(40)]},
        p \in {EmptyObject,
               [points |-> Arr(<<>>)],
               [points |-> Arr(<<Point(1, 1)>>)],
               [points |-> Arr(<<Point(0, 0), Point(5, 6)>>)],
               [points |-> Arr(<<Obj([x |-> Num(0), y |-> Num(0), z |-> Num(9)]),
                                 Obj([x |-> Num(5), y |-> Num(6), label |-> Str("end")])>>)]} }

EveryField ==
    [ width |-> Num(30), height |-> Num(40), backgroundColor |-> Str("#f3f3f3"),
      strokeColor |-> Str("#333"), strokeWidth |-> Num(4), strokeStyle |-> Str("dashed"),
      fillStyle |-> Str("solid"), roughness |-> Num(0), opacity |-> Frac(1, 4),
      text |-> Str("hello"), fontSize |-> Num(36), fontFamily |-> Str("Cascadia"),
      textAlign |-> Str("left"), verticalAlign |-> Str("top"), locked |-> Bool(TRUE),
      angle |-> Num(90) ]

\* bags that ElementSchema rejects
RejectedArgs ==
    { [type |-> Str("blob"), x |-> Num(10), y |-> Num(20)],
      [type |-> Str("rectangle"), y |-> Num(20)],
      [type |-> Str("rectangle"), x |-> Str("10"), y |-> Num(20)],
      [x |-> Num(10), y |-> Num(20)],
      [type |-> Str("text"), x |-> Num(10), y |-> Num(20), fontFamily |-> Str("")],
      [type |-> Str("line"), x |-> Num(10), y |-> Num(20), locked |-> Str("yes")] }

CreationArgs ==
    { Spread([type |-> Str(type), x |-> Num(10), y |-> Num(20)], extra) :
        type \in {"rectangle", "text", "arrow", "line"},
        extra \in SingleFields \cup Geometry \cup {EveryField} }
    \cup RejectedArgs

Creation ==
    [ createArgs |-> CreationArgs,
      idArgs |-> {[id |-> Str(id)] : id \in KnownIds(MaxCreations)},
      clock |-> {1000},
      random |-> {7, 8},
      maxIds |-> MaxCreations,
      maxElements |-> 1 ]

NextCreate ==
    \/ CreateElement(Creation)
    \/ DeleteElement(Creation)

SpecCreate == Init /\ [][NextCreate]_vars

----------------------------------------------------------------------------
(* Reading the last response *)

Succeeded(name) == result.request.name = name /\ ~result.isError
Failed(name) == result.request.name = name /\ result.isError

\* the arguments of the request the last response answers
Arguments == result.request.arguments

\* the element a successful create_element / update_element response names
Answered == MapGet(elements, result.body.id.v)

----------------------------------------------------------------------------
(* C1: every create_element that passes validation stores, under the new   *)
(* id, an element with version 1 and isDeleted false in which every        *)
(* optional field the input omitted has its documented default, and        *)
(* originalText equals text.                                               *)

DocumentedDefaults ==
    [ width |-> Num(10), height |-> Num(10), backgroundColor |-> Str("transparent"),
      strokeColor |-> Str("#000000"), strokeWidth |-> Num(1), strokeStyle |-> Str("solid"),
      fillStyle |-> Str("hachure"), roughness |-> Num(1), opacity |-> Num(100),
      text |-> Str(""), fontSize |-> Num(20), fontFamily |-> Num(1),
      textAlign |-> Str("center"), verticalAlign |-> Str("middle"),
      locked |-> Bool(FALSE), angle |-> Num(0), groupIds |-> Arr(<<>>) ]

C1_CreateAppliesDefaults ==
    Succeeded("create_element") =>
        /\ MapHas(elements, result.body.id.v)
        /\ Answered.version = Num(1)
        /\ Answered.isDeleted = Bool(FALSE)
        /\ Answered.originalText = Answered.text
        /\ \A k \in DOMAIN DocumentedDefaults :
               ~Has(Arguments, k) => Has(Answered, k) /\ Answered[k] = DocumentedDefaults[k]

\* a create that gave only type, x and y, so that every default applies
C1_Witness ==
    /\ Succeeded("create_element")
    /\ DOMAIN Arguments = {"type", "x", "y"}
    /\ Answered.opacity = Num(100)

----------------------------------------------------------------------------
(* C4: an arrow or line created with no points or fewer than 2 points      *)
(* stores exactly the 2 points (0,0) and (width, height), width and height *)
(* being the element's stored width and height, whatever was supplied,     *)
(* 0 included.                                                             *)

FewerThanTwoPoints(args) == ~Has(args, "points") \/ Len(args.points.v) < 2

C4_DefaultPointsFollowStoredSize ==
    ( /\ Succeeded("create_element")
      /\ Arguments.type \in {Str("arrow"), Str("line")}
      /\ FewerThanTwoPoints(Arguments) )
    => Answered.points =
         Arr(<< Arr(<<Num(0), Num(0)>>), Arr(<<Answered.width, Answered.height>>) >>)

----------------------------------------------------------------------------
(* C2: a successful update_element leaves the stored version exactly one   *)
(* above what it was, whatever the patch carries (a version field          *)
(* included), and reports the stored version; so an element's version is   *)
(* always 1 plus the number of successful updates since its creation.      *)

C2_VersionCountsUpdates ==
    /\ \A id \in MapKeys(elements) :
           MapGet(elements, id).version = Num(1 + updateCount[id])
    /\ Succeeded("update_element") => result.body.version = Answered.version

\* an element updated twice, the last time with a patch that carried its own version
C2_Witness ==
    /\ Succeeded("update_element")
    /\ Has(Arguments, "version")
    /\ updateCount[Arguments.id.v] = 2
    /\ Answered.version = Num(3)

----------------------------------------------------------------------------
(* C3: once delete_element(id) has succeeded, every later update_element   *)
(* or delete_element of that id (with arguments its schema accepts)        *)
(* answers not-found, and no query_elements or get_resource result holds   *)
(* an element with that id, whatever is done to other ids in between.      *)

Names(id) ==
    /\ HasArguments(result.request)
    /\ Has(Arguments, "id")
    /\ Arguments.id = Str(id)

IsNotFound(res, id) ==
    /\ res.isError
    /\ res.body.message = "Element with ID " \o id \o " not found"

\* the elements a query_elements or get_resource response lists
Listed ==
    IF Succeeded("query_elements") THEN result.body.v
    ELSE IF Succeeded("get_resource") /\ Has(result.body, "elements") THEN result.body.elements
    ELSE <<>>

DeletedStaysGone ==
    \A id \in deleted :
        /\ ~MapHas(elements, id)
        /\ \A i \in 1..Len(Listed) : Listed[i].id # Str(id)
        /\ Succeeded("update_element") => ~Names(id)

\* the step answers an update_element or delete_element of id whose arguments
\* pass the tool's schema
AnswersCallOn(id) ==
    /\ result' # result
    /\ HasArguments(result'.request)
    /\ \/ /\ result'.request.name = "update_element"
          /\ ElementUpdateSchema(result'.request.arguments)
       \/ /\ result'.request.name = "delete_element"
          /\ ElementIdSchema(result'.request.arguments)
    /\ result'.request.arguments.id = Str(id)

DeletedAnswersNotFound ==
    \A id \in deleted : AnswersCallOn(id) => IsNotFound(result', id)

C3_DeletedIsNotFound == []DeletedStaysGone /\ [][DeletedAnswersNotFound]_vars

\* an update of a deleted element was refused while another element is stored
C3_Witness ==
    /\ Failed("update_element")
    /\ \E id \in deleted : Names(id) /\ IsNotFound(result, id)
    /\ elements # <<>>

----------------------------------------------------------------------------
(* C5: every stored element's opacity lies in [0, 100]: a supplied opacity *)
(* v is stored as 100*v clamped to [0, 100] (0.5 gives 50, 1.2 gives 100,  *)
(* a negative value gives 0) and an element created without opacity        *)
(* stores 100.  The product is a product of doubles: what is stored is the *)
(* double nearest to 100*v or a neighbour of it (0.07 gives                *)
(* 7.000000000000001).                                                     *)

\* one element at a time, created and updated with opacities on both sides of
\* the range, at its ends, and where the product of doubles is not the
\* nearest double
Opacities ==
    { Frac(1, 2), Frac(6, 5), Frac(-1, 2), Num(0), Num(1),
      Frac(7, 100), Frac(29, 100), Frac(-7, 100) }

Shading ==
    [ createArgs |->
        { [type |-> Str("rectangle"), x |-> Num(10), y |-> Num(0)] }
        \cup { [type |-> Str("rectangle"), x |-> Num(10), y |-> Num(0), opacity |-> o] :
                  o \in Opacities },
      updateArgs |->
        { WithId(id, [opacity |-> o]) : id \in KnownIds(MaxEdited), o \in Opacities }
        \cup { WithId(id, [x |-> Num(50)]) : id \in KnownIds(MaxEdited) },
      idArgs |-> {[id |-> Str(id)] : id \in KnownIds(MaxEdited)},
      clock |-> {1000},
      random |-> {7},
      maxIds |-> MaxEdited,
      maxElements |-> 1 ]

NextOpacity ==
    \/ CreateElement(Shading)
    \/ UpdateElement(Shading)
    \/ DeleteElement(Shading)

SpecOpacity == Init /\ [][NextOpacity]_vars

\* 100*v clamped to [0, 100], from the order of the rationals
Clamped(v) ==
    IF v.v < 0 THEN Num(0)
    ELSE IF v.v > v.den THEN Num(100)
    ELSE Frac(100 * v.v, v.den)

\* the double nearest to the decimal that names x
Nearest(x) == Frac(x.v, x.den)

C5_OpacityWithinRange ==
    /\ \A id \in MapKeys(elements) :
           LET opacity == MapGet(elements, id).opacity
           IN  /\ opacity.t = "number"
               /\ LessEq(Num(0), opacity)
               /\ LessEq(opacity, Num(100))
    /\ ( /\ Succeeded("create_element") \/ Succeeded("update_element")
         /\ Has(Arguments, "opacity") ) =>
               /\ Nearest(Answered.opacity) = Clamped(Arguments.opacity)
               /\ Ulps(Answered.opacity) \in -1..1
               /\ Arguments.opacity = Frac(1, 2) => Answered.opacity = Num(50)
               /\ Arguments.opacity = Frac(6, 5) => Answered.opacity = Num(100)
               /\ Arguments.opacity = Frac(-1, 2) => Answered.opacity = Num(0)
    /\ Succeeded("create_element") /\ ~Has(Arguments, "opacity") => Answered.opacity = Num(100)

\* an update that supplied 1.2 and left 100 in store
C5_Witness ==
    /\ Succeeded("update_element")
    /\ Has(Arguments, "opacity")
    /\ Arguments.opacity = Frac(6, 5)
    /\ Answered.opacity = Num(100)

----------------------------------------------------------------------------
(* C10: lock_elements / unlock_elements given a list of ids always         *)
(* succeed, set locked to true / false on every named element that is      *)
(* stored, skip the ids that are not, and leave every other attribute of   *)
(* the named elements, every other element, the group registry and the     *)
(* scene state as they were.                                               *)

NamedIds(req) == {req.arguments.elementIds.v[i].v : i \in 1..Len(req.arguments.elementIds.v)}

LockStep ==
    /\ result' # result
    /\ result'.request.name \in {"lock_elements", "unlock_elements"}
    /\ HasArguments(result'.request)
    /\ ElementIdsSchema(result'.request.arguments)

LockChangesOnlyLocked ==
    LockStep =>
        LET flag == Bool(result'.request.name = "lock_elements")
            named == NamedIds(result'.request)
        IN  /\ ~result'.isError
            /\ Len(elements') = Len(elements)
            /\ \A i \in 1..Len(elements) :
                   /\ elements'[i].key = elements[i].key
                   /\ IF elements[i].key \in named
                      THEN /\ elements'[i].value.locked = flag
                           /\ Without(elements'[i].value, {"locked"})
                                = Without(elements[i].value, {"locked"})
                      ELSE elements'[i].value = elements[i].value
            /\ sceneState' = sceneState

C10_LockOnlySetsLocked == [][LockChangesOnlyLocked]_vars

\* an unlock that named a stored, locked element and an unknown id succeeded and
\* cleared the flag, beside an element it did not name
C10_Witness ==
    /\ Succeeded("unlock_elements")
    /\ NamedIds(result.request) = {"id2", "nope"}
    /\ MapHas(elements, "id2") /\ MapHas(elements, "id1")
    /\ MapGet(elements, "id2").type = Str("arrow")
    /\ MapGet(elements, "id2").locked = Bool(FALSE)

----------------------------------------------------------------------------
(* Queries over repositories of mixed types and lock states *)

Querying ==
    [ createArgs |->
        { [type |-> Str("rectangle"), x |-> Num(10), y |-> Num(0)],
          [type |-> Str("rectangle"), x |-> Num(10), y |-> Num(0), locked |-> Bool(TRUE)],
          [type |-> Str("arrow"), x |-> Num(50), y |-> Num(0), locked |-> Bool(TRUE)] },
      idArgs |-> {[id |-> Str("id1")]},
      idsArgs |-> IdsArgs({<<"id2">>}),
      queryArgs |->
        { EmptyObject,
          [type |-> Str("rectangle")],
          [type |-> Str("rectangle"), filter |-> Obj([locked |-> Bool(TRUE)])],
          [filter |-> Obj([locked |-> Bool(TRUE)])],
          [filter |-> Obj([locked |-> Bool(TRUE), x |-> Num(10)])],
          [filter |-> Obj(EmptyObject)],
          [filter |-> Obj([frameId |-> Null])],
          [filter |-> Obj([colour |-> Str("red")])],
          [filter |-> Obj([groupIds |-> Arr(<<>>)])],
          [filter |-> Obj([x |-> Str("10")])],
          [filter |-> Obj("__proto__" :> Num(1))],
          [type |-> Str("blob")] },
      clock |-> {1000},
      random |-> {7},
      maxIds |-> MaxQueried,
      maxElements |-> MaxQueried ]

NextQuery ==
    \/ CreateElement(Querying)
    \/ DeleteElement(Querying)
    \/ UnlockElements(Querying)
    \/ QueryElements(Querying)

SpecQuery == Init /\ [][NextQuery]_vars

----------------------------------------------------------------------------
(* C6: query_elements returns exactly the stored elements whose type is    *)
(* the given type (when given) and on which every key of filter is present *)
(* with a strictly equal value (when given); with neither it returns every *)
(* element; it never returns an element that is not stored and never       *)
(* omits one that matches.                                                 *)

Stored == {elements[i].value : i \in 1..Len(elements)}

Primitive(x) == x.t \in {"number", "string", "boolean", "null"}

Satisfies(el, args) ==
    /\ Has(args, "type") => el.type = args.type
    /\ Has(args, "filter") =>
           \A key \in DOMAIN args.filter.v :
               /\ Has(el, key)
               /\ Primitive(el[key])
               /\ el[key] = args.filter.v[key]

C6_QueryReturnsExactlyTheMatches ==
    Succeeded("query_elements") =>
        LET args == ArgsOrEmpty(result.request)
            listed == result.body.v
            matching == {el \in Stored : Satisfies(el, args)}
        IN  /\ {listed[i] : i \in 1..Len(listed)} = matching
            /\ Len(listed) = Cardinality(matching)
            /\ DOMAIN args = {} => listed = MapValues(elements)

\* of three stored elements only the locked rectangle was returned
C6_Witness ==
    /\ Succeeded("query_elements")
    /\ HasArguments(result.request)
    /\ DOMAIN Arguments = {"type", "filter"}
    /\ Len(elements) = 3
    /\ Len(result.body.v) = 1
    /\ \E el \in Stored : el.type = Str("rectangle") /\ el.locked = Bool(FALSE)
    /\ \E el \in Stored : el.type = Str("arrow") /\ el.locked = Bool(TRUE)

----------------------------------------------------------------------------
(* Layout of rectangles placed along the x axis *)

LayingOut ==
    [ createArgs |->
        { [type |-> Str("rectangle"), x |-> Num(x), y |-> Num(0)] : x \in {0, 10, 50, 100} },
      alignArgs |->
        { Spread(a, [alignment |-> Str("left")]) :
            a \in IdsArgs({<<"id1", "id2">>, <<"id1", "nope">>}) },
      distributeArgs |->
        { Spread(a, [direction |-> Str("horizontal")]) :
            a \in IdsArgs({<<"id1", "id2", "id3">>, <<"id1", "nope", "id2">>}) },
      clock |-> {1000},
      random |-> {7},
      maxIds |-> MaxLaidOut,
      maxElements |-> MaxLaidOut ]

NextLayout ==
    \/ CreateElement(LayingOut)
    \/ AlignElements(LayingOut)
    \/ DistributeElements(LayingOut)

SpecLayout == Init /\ [][NextLayout]_vars

\* the step answers a successful call of the tool, all of whose named ids are stored
LayoutStep(name) ==
    /\ result' # result
    /\ result'.request.name = name
    /\ ~result'.isError
    /\ NamedIds(result'.request) \subseteq MapKeys(elements)

----------------------------------------------------------------------------
(* C7: align_elements(ids, "left") sets the x of every named element to    *)
(* the minimum x among the named elements and leaves each element's y,     *)
(* width and height unchanged.                                             *)

C7_AlignLeftMovesToMinimumX ==
    [][ ( /\ LayoutStep("align_elements")
          /\ result'.request.arguments.alignment = Str("left") )
        => \A id \in NamedIds(result'.request) :
               LET before == MapGet(elements, id)
                   after == MapGet(elements', id)
               IN  /\ \A other \in NamedIds(result'.request) :
                          LessEq(after.x, MapGet(elements, other).x)
                   /\ \E other \in NamedIds(result'.request) :
                          after.x = MapGet(elements, other).x
                   /\ after.y = before.y
                   /\ after.width = before.width
                   /\ after.height = before.height ]_vars

----------------------------------------------------------------------------
(* C8: distribute_elements over three or more named elements, direction    *)
(* horizontal, leaves the first and the last element (ordered by x)        *)
(* unchanged and repositions the interior ones so that the gaps between    *)
(* consecutive elements are equal.                                         *)

\* the named ids in increasing order of x (the x values being distinct)
ByX(ids, els) ==
    CHOOSE order \in [1..Cardinality(ids) -> ids] :
        \A i, j \in 1..Cardinality(ids) :
            i < j => MapGet(els, order[i]).x.v < MapGet(els, order[j]).x.v

DistinctX(ids, els) ==
    \A a, b \in ids : a # b => MapGet(els, a).x # MapGet(els, b).x

\* the space between the right edge of a and the left edge of b
Gap(els, a, b) == MapGet(els, b).x.v - (MapGet(els, a).x.v + MapGet(els, a).width.v)

C8_DistributeEqualizesGaps ==
    [][ ( /\ LayoutStep("distribute_elements")
          /\ result'.request.arguments.direction = Str("horizontal")
          /\ Cardinality(NamedIds(result'.request)) >= 3
          /\ DistinctX(NamedIds(result'.request), elements) )
        => LET ids == NamedIds(result'.request)
               n == Cardinality(ids)
               order == ByX(ids, elements)
           IN  /\ MapGet(elements', order[1]) = MapGet(elements, order[1])
               /\ MapGet(elements', order[n]) = MapGet(elements, order[n])
               /\ \A i \in 1..(n - 2) :
                      Gap(elements', order[i], order[i + 1])
                        = Gap(elements', order[i + 1], order[i + 2]) ]_vars

----------------------------------------------------------------------------
(* C9: align_elements and distribute_elements answer not-found whenever    *)
(* one of the named ids is not stored.                                     *)

C9_LayoutRejectsUnknownIds ==
    ( /\ result.request.name \in {"align_elements", "distribute_elements"}
      /\ HasArguments(result.request)
      /\ ElementIdsSchema(Arguments)
      /\ ~(NamedIds(result.request) \subseteq MapKeys(elements)) )
    => result.isError

----------------------------------------------------------------------------
(* C11: save_scene with a file name that does not end in ".excalidraw"     *)
(* answers with a failure, starts no write, and leaves the repository and  *)
(* the scene state as they were; with no file name the scene goes to       *)
(* mcp_scene.excalidraw and the name is accepted. The empty string is a    *)
(* file name that does not end in ".excalidraw".                           *)

\* the file names of the requests that lack the extension
BadFilenames == {"a.txt", "excalidraw", ""}

\* saving a rectangle or a line under names with and without the extension,
\* under no name, and without arguments
Filing ==
    [ createArgs |->
        { [type |-> Str("rectangle"), x |-> Num(10), y |-> Num(0)],
          [type |-> Str("line"), x |-> Num(0), y |-> Num(0),
           points |-> Arr(<<Point(0, 0), Point(5, 6)>>)] },
      saveArgs |->
        { [filename |-> Str(name)] : name \in BadFilenames \cup {"my_drawing.excalidraw"} }
        \cup {EmptyObject},
      ioErrors |-> {"ENOSPC: no space left on device"},
      clock |-> {1000},
      random |-> {7},
      maxIds |-> MaxSceneIds,
      maxElements |-> 1 ]

NextSave ==
    \/ CreateElement(Filing)
    \/ SaveScene(Filing)
    \/ WriteFileResolves
    \/ WriteFileRejects(Filing)

SpecSave == Init /\ [][NextSave]_vars

\* whether a save_scene request carries a file name, and the name it carries
NamesFile(req) == HasArguments(req) /\ Has(req.arguments, "filename")
Requested(req) == req.arguments.filename.v

NoWriteUnderBadName ==
    /\ \A i \in 1..Len(pendingWrites) :
           /\ NamesFile(pendingWrites[i].request)
                => Requested(pendingWrites[i].request) \notin BadFilenames
           /\ ~NamesFile(pendingWrites[i].request)
                => pendingWrites[i].filename = "mcp_scene.excalidraw"
    /\ DOMAIN files \cap BadFilenames = {}
    /\ Failed("save_scene") /\ ~NamesFile(result.request) => Has(result.body, "text")

BadNameIsRefused ==
    ( /\ result' # result
      /\ result'.request.name = "save_scene"
      /\ NamesFile(result'.request)
      /\ Requested(result'.request) \in BadFilenames )
    => /\ result'.isError
       /\ result'.body = [error |-> "Error", message |-> "Filename must end with .excalidraw"]
       /\ UNCHANGED <<elements, sceneState, pendingWrites, files>>

C11_SaveRejectsBadFilename == []NoWriteUnderBadName /\ [][BadNameIsRefused]_vars

----------------------------------------------------------------------------
(* C12: the document a save_scene with a valid file name writes lists the  *)
(* elements the repository held when save_scene was invoked (as save_scene *)
(* left them on starting the write): tool calls handled while the write is *)
(* pending change neither the pending document nor the file, and the file  *)
(* a completed write leaves is that document.                              *)

\* the write the step settled: the one entry of pendingWrites that is gone
Settled(i) == pendingWrites' = RemoveAt(pendingWrites, i)

WriteCarriesInvokedScene ==
    /\ Len(pendingWrites') > Len(pendingWrites) =>
           LET w == pendingWrites'[Len(pendingWrites')]
           IN  /\ pendingWrites' = Append(pendingWrites, w)
               /\ w.data.elements = MapValues(elements')
               /\ Len(elements') = Len(elements)
               /\ \A i \in 1..Len(elements) :
                      Without(elements'[i].value, {"points"}) = Without(elements[i].value, {"points"})
               /\ files' = files
    /\ Len(pendingWrites') = Len(pendingWrites) =>
           /\ pendingWrites' = pendingWrites
           /\ files' = files
    /\ Len(pendingWrites') < Len(pendingWrites) =>
           \E i \in 1..Len(pendingWrites) :
               /\ Settled(i)
               /\ result'.request = pendingWrites[i].request
               /\ ~result'.isError =>
                      files' = (pendingWrites[i].filename :> pendingWrites[i].data) @@ files

----------------------------------------------------------------------------
(* C13: when the write of save_scene fails, the call answers with the      *)
(* error flag set and a text that carries the I/O error's message; the     *)
(* failure leaves the repository, the group registry and the scene state   *)
(* as they were, so the calls that follow are served from the same store.  *)

IoMessages == {"ENOSPC: no space left on device"}

WriteFailureIsReported ==
    Len(pendingWrites') < Len(pendingWrites) /\ result'.isError =>
        /\ \E message \in IoMessages : result'.body = [text |-> "Error saving scene: " \o message]
        /\ result'.request.name = "save_scene"
        /\ UNCHANGED <<elements, sceneState, nextId>>

C13_WriteFailureIsAnError == [][WriteFailureIsReported]_vars

\* a failed write was reported while the repository still holds its element
C13_Witness ==
    /\ Failed("save_scene")
    /\ result.body = [text |-> "Error saving scene: ENOSPC: no space left on device"]
    /\ Len(elements) = 1
    /\ pendingWrites = <<>>

----------------------------------------------------------------------------
(* C14: when create_element, update_element, delete_element or             *)
(* ungroup_elements answers with a failure (a type outside the enum, a     *)
(* missing x or y, arguments the schema rejects, an unknown element id, an *)
(* unknown group id), the repository and the group registry are as they    *)
(* were before the call: nothing added, removed or modified, no version    *)
(* incremented.                                                            *)

FailingStep ==
    /\ result' # result
    /\ result'.isError
    /\ result'.request.name
         \in {"create_element", "update_element", "delete_element", "ungroup_elements"}

FailureChangesNothing == FailingStep => UNCHANGED <<elements, sceneState>>

C14_FailureLeavesStoreUnchanged == [][FailureChangesNothing]_vars

\* an update of an unknown id with a valid patch was refused while an element
\* and a group are stored
C14_Witness ==
    /\ Failed("update_element")
    /\ HasArguments(result.request)
    /\ ElementUpdateSchema(Arguments)
    /\ Arguments.id = Str("nope")
    /\ Len(elements) = 1
    /\ Len(sceneState.groups) = 1

----------------------------------------------------------------------------
(* Groups made and dissolved beside a stored element *)

Grouping ==
    [ createArgs |-> { [type |-> Str("rectangle"), x |-> Num(10), y |-> Num(0)] },
      idsArgs |-> IdsArgs({ <<"id1">>, <<"id2", "nope", "id2">>, <<>> }),
      groupArgs |-> {[groupId |-> Str(id)] : id \in KnownIds(MaxGrouped) \cup {"nope"}},
      clock |-> {1000},
      random |-> {7},
      maxIds |-> MaxGrouped,
      maxElements |-> 1 ]

NextGroups ==
    \/ CreateElement(Grouping)
    \/ GroupElements(Grouping)
    \/ UngroupElements(Grouping)

SpecGroups == Init /\ [][NextGroups]_vars

----------------------------------------------------------------------------
(* C15: ungroup_elements(g) succeeds exactly when g was returned by an     *)
(* earlier group_elements call and not ungrouped since; it then returns    *)
(* the id sequence given to that call and removes that registry entry      *)
(* only; otherwise it answers not-found and the registry is unchanged.     *)
(* Stated step by step: the registry gains an entry only by a successful   *)
(* group_elements, under the fresh id it returns and holding the sequence  *)
(* it was given, and loses one only by a successful ungroup_elements.      *)

Groups == sceneState.groups

Answers(name) ==
    /\ result' # result
    /\ result'.request.name = name
    /\ HasArguments(result'.request)

GroupStep == Answers("group_elements") /\ ElementIdsSchema(result'.request.arguments)
UngroupStep == Answers("ungroup_elements") /\ GroupIdSchema(result'.request.arguments)

RegistryFollowsGroupCalls ==
    IF GroupStep
    THEN /\ ~result'.isError
         /\ result'.body.groupId.v \notin MapKeys(Groups)
         /\ result'.body.elementIds = result'.request.arguments.elementIds
         /\ Groups' = Append(Groups, [key |-> result'.body.groupId.v,
                                      value |-> result'.request.arguments.elementIds])
    ELSE IF UngroupStep
    THEN LET g == result'.request.arguments.groupId.v
         IN  IF \E i \in 1..Len(Groups) : Groups[i].key = g
             THEN /\ ~result'.isError
                  /\ \E i \in 1..Len(Groups) :
                         /\ Groups[i].key = g
                         /\ result'.body.elementIds = Groups[i].value
                         /\ Groups' = RemoveAt(Groups, i)
             ELSE /\ result'.isError
                  /\ result'.body.message = "Group " \o g \o " not found"
                  /\ Groups' = Groups
    ELSE Groups' = Groups

C15_UngroupMatchesGroup == [][RegistryFollowsGroupCalls]_vars

\* the second of three groups was dissolved: its id sequence, duplicates and
\* unknown ids included, came back, and the two others are still registered
C15_Witness ==
    /\ Succeeded("ungroup_elements")
    /\ Arguments.groupId = Str("id2")
    /\ result.body.elementIds = Arr(<<Str("id2"), Str("nope"), Str("id2")>>)
    /\ MapKeys(Groups) = {"id1", "id3"}

----------------------------------------------------------------------------
(* One element at a time, edited with patches that carry font names and    *)
(* the fields the server assigns                                           *)

EditPatches ==
    { [x |-> Num(50)],
      [fontFamily |-> Str("HELVETICA")],
      [fontFamily |-> Str("Comic")],
      [fontFamily |-> Num(3)],
      [isDeleted |-> Bool(TRUE)],
      [seed |-> Num(99)],
      [type |-> Str("arrow")],
      [type |-> Str("rectangle")],
      [opacity |-> Frac(29, 100)],
      [opacity |-> Inexact(1, 2, -1)],
      [points |-> Arr(<<Obj([x |-> Num(0), y |-> Num(0), z |-> Num(9)]), Point(5, 6)>>)],
      "__proto__" :> Num(5) }

Editing ==
    [ createArgs |->
        { [type |-> Str("rectangle"), x |-> Num(10), y |-> Num(0)],
          [type |-> Str("text"), x |-> Num(10), y |-> Num(0), fontFamily |-> Num(2),
           seed |-> Num(99), isDeleted |-> Bool(TRUE)] },
      updateArgs |-> {WithId(id, p) : id \in KnownIds(MaxEdited), p \in EditPatches},
      idArgs |-> {[id |-> Str(id)] : id \in KnownIds(MaxEdited)},
      clock |-> {1000},
      random |-> {7},
      maxIds |-> MaxEdited,
      maxElements |-> 1 ]

NextEdit ==
    \/ CreateElement(Editing)
    \/ UpdateElement(Editing)
    \/ DeleteElement(Editing)

SpecEdit == Init /\ [][NextEdit]_vars

\* the step answers an update_element of a stored element
UpdateStep ==
    /\ Answers("update_element")
    /\ Has(result'.request.arguments, "id")
    /\ IsString(result'.request.arguments.id)
    /\ MapHas(elements, result'.request.arguments.id.v)

Patch == Without(result'.request.arguments, {"id"})
Before == MapGet(elements, result'.request.arguments.id.v)
After == MapGet(elements', result'.request.arguments.id.v)

----------------------------------------------------------------------------
(* C16: an update_element whose patch carries fontFamily as a font name    *)
(* succeeds: virgil, helvetica or cascadia in any letter case stores 1, 2  *)
(* or 3, any other name leaves the stored fontFamily as it was, and in     *)
(* both cases the version goes up by one.                                  *)

FontCodes == [HELVETICA |-> Num(2), Virgil |-> Num(1), Cascadia |-> Num(3)]

C16_FontNameStep ==
    ( /\ UpdateStep
      /\ DOMAIN Patch = {"fontFamily"}
      /\ IsString(Patch.fontFamily) )
    => /\ ~result'.isError
       /\ After.fontFamily = IF Patch.fontFamily.v \in DOMAIN FontCodes
                              THEN FontCodes[Patch.fontFamily.v]
                              ELSE Before.fontFamily
       /\ After.version = Num(Before.version.v + 1)

C16_UpdateAcceptsFontNames == [][C16_FontNameStep]_vars

----------------------------------------------------------------------------
(* C17: every element created with type arrow stores startArrowhead null   *)
(* and endArrowhead "arrow" unless the caller supplied those fields, and   *)
(* then stores the supplied values, whether or not the caller gave 2 or    *)
(* more points.                                                            *)

C17_ArrowheadsDefaultOrSupplied ==
    ( /\ Succeeded("create_element")
      /\ Arguments.type = Str("arrow") )
    => /\ Answered.startArrowhead = Coalesce(Arguments, "startArrowhead", Null)
       /\ Answered.endArrowhead = Coalesce(Arguments, "endArrowhead", Str("arrow"))

----------------------------------------------------------------------------
(* C18: in every reachable state every element in the repository has       *)
(* isDeleted false, whatever fields, isDeleted among them, were given to   *)
(* create_element or update_element.                                       *)

C18_StoredElementsAreLive ==
    \A i \in 1..Len(elements) : elements[i].value.isDeleted = Bool(FALSE)

----------------------------------------------------------------------------
(* C19: an element's seed is drawn by the server at creation and cannot be *)
(* set by a caller: a seed field in the create_element arguments is not    *)
(* stored, and from creation to deletion the stored seed never changes,    *)
(* whatever fields an update_element carries.                              *)

ServerSeeds == {Num(n) : n \in Editing.random}

C19_SeedStep ==
    /\ \A i \in 1..Len(elements), j \in 1..Len(elements') :
           elements'[j].key = elements[i].key
             => elements'[j].value.seed = elements[i].value.seed
    /\ \A j \in 1..Len(elements') :
           elements'[j].key \notin MapKeys(elements) => elements'[j].value.seed \in ServerSeeds

C19_SeedNeverChanges == [][C19_SeedStep]_vars

----------------------------------------------------------------------------
(* C20: an element's type is fixed by its creation: an update_element      *)
(* whose patch carries a type other than the stored one does not change    *)
(* the stored type.                                                        *)

C20_RetypeStep ==
    ( /\ UpdateStep
      /\ Has(Patch, "type")
      /\ Patch.type # Before.type )
    => After.type = Before.type

C20_TypeIsImmutable == [][C20_RetypeStep]_vars

----------------------------------------------------------------------------
(* C21: in every reachable state the record stored under key k has id k,   *)
(* and no step changes the id of a stored element, whatever the arguments  *)
(* of create_element and update_element carry and whatever sequence of     *)
(* create, update, delete, lock and save runs.                             *)

IdIsKey == \A i \in 1..Len(elements) : elements[i].value.id = Str(elements[i].key)

IdStep ==
    \A i \in 1..Len(elements), j \in 1..Len(elements') :
        elements'[j].key = elements[i].key => elements'[j].value.id = elements[i].value.id

C21_IdIsTheKey == []IdIsKey /\ [][IdStep]_vars

\* an element created with an id of the caller's, then updated and locked, is in
\* the repository under the generated id after a scene was written
C21_Witness ==
    /\ Succeeded("lock_elements")
    /\ MapHas(elements, "id1")
    /\ MapGet(elements, "id1").id = Str("id1")
    /\ MapGet(elements, "id1").version = Num(2)
    /\ MapGet(elements, "id1").locked = Bool(TRUE)
    /\ files # EmptyObject

----------------------------------------------------------------------------
(* C22: group_elements succeeds for every id sequence, duplicates and ids  *)
(* that are not stored included; it adds one registry entry, under a group *)
(* id not in use, holding the sequence as given, and leaves every element  *)
(* record (its groupIds in particular), every existing group and the rest  *)
(* of the scene state unchanged.                                           *)

GroupOnlyAddsAnEntry ==
    GroupStep =>
        /\ ~result'.isError
        /\ Len(Groups') = Len(Groups) + 1
        /\ \A i \in 1..Len(Groups) : Groups'[i] = Groups[i]
        /\ LET entry == Groups'[Len(Groups')]
           IN  /\ entry.key \notin MapKeys(Groups) \cup MapKeys(elements)
               /\ entry.key = result'.body.groupId.v
               /\ entry.value = result'.request.arguments.elementIds
        /\ elements' = elements
        /\ [sceneState' EXCEPT !.groups = Groups] = sceneState

C22_GroupOnlyAddsAnEntry == [][GroupOnlyAddsAnEntry]_vars

\* a second group was made of a duplicated id and an id that is not stored,
\* beside a stored element whose groupIds are still empty
C22_Witness ==
    /\ Succeeded("group_elements")
    /\ Arguments.elementIds = Arr(<<Str("id2"), Str("nope"), Str("id2")>>)
    /\ Len(Groups) = 2
    /\ Groups[2].value = Arguments.elementIds
    /\ Len(elements) = 1
    /\ elements[1].value.groupIds = Arr(<<>>)

----------------------------------------------------------------------------
(* C23: in every document save_scene writes, every element of type arrow   *)
(* or line has at least 2 points, whatever ran before, updates that left   *)
(* an arrow with fewer than 2 points or retyped a point-less element to    *)
(* arrow included.                                                         *)

\* the documents handed to the file system: those in flight and those on disk
Documents ==
    {pendingWrites[i].data : i \in 1..Len(pendingWrites)}
      \cup {files[f] : f \in {g \in DOMAIN files : files[g].type = "excalidraw"}}

HasTwoPoints(el) == Has(el, "points") /\ IsArray(el.points) /\ Len(el.points.v) >= 2

C23_WrittenLinesHaveTwoPoints ==
    \A doc \in Documents :
        \A i \in 1..Len(doc.elements) :
            doc.elements[i].type \in {Str("arrow"), Str("line")} => HasTwoPoints(doc.elements[i])

\* a rectangle given a single point and then retyped to arrow was written with
\* the two default points
C23_Witness ==
    /\ Succeeded("save_scene")
    /\ \E doc \in Documents :
           /\ Len(doc.elements) = 1
           /\ doc.elements[1].type = Str("arrow")
           /\ doc.elements[1].version = Num(3)
           /\ doc.elements[1].points = Arr(<<Arr(<<Num(0), Num(0)>>), Arr(<<Num(10), Num(10)>>)>>)

----------------------------------------------------------------------------
(* C24: a save_scene call that fails because the write failed leaves the   *)
(* repository as it was before the call: every element record that no      *)
(* later call has updated, locked or unlocked in the meantime is exactly    *)
(* the record the call found, arrows and lines with fewer than 2 points    *)
(* included.                                                               *)

\* no update_element, lock_elements or unlock_elements has touched the record since
Untouched(was, now) == now.version = was.version /\ now.locked = was.locked

FailedSaveRestores ==
    \A i \in 1..Len(pendingWrites) :
        Settled(i) /\ result'.isError =>
            \A j \in 1..Len(pendingWrites[i].before) :
                LET was == pendingWrites[i].before[j]
                IN  MapHas(elements', was.key) /\ Untouched(was.value, MapGet(elements', was.key))
                      => MapGet(elements', was.key) = was.value

C24_FailedSaveLeavesRepository == [][FailedSaveRestores]_vars

----------------------------------------------------------------------------
(* C25: every tool call, whatever its tool name (an unknown one included)  *)
(* and its argument bag (a missing one included), gets exactly one result  *)
(* from the handler, a success payload or a result with the error flag     *)
(* set; nothing escapes the handler, and an unknown tool name gets an      *)
(* error result with the store unchanged.                                  *)

ToolNames ==
    { "create_element", "update_element", "delete_element", "query_elements",
      "get_resource", "group_elements", "ungroup_elements", "align_elements",
      "distribute_elements", "lock_elements", "unlock_elements", "save_scene" }

\* a result is a success payload, or carries the error flag and a message
WellFormed(res) ==
    /\ res.isError \in BOOLEAN
    /\ res.isError => Has(res.body, "message") \/ Has(res.body, "text")

EveryCallIsAnswered ==
    /\ result' # result =>
           /\ WellFormed(result')
           /\ result'.request.name \notin ToolNames =>
                  /\ result'.isError
                  /\ result'.body.message = "Unknown tool: " \o result'.request.name
                  /\ UNCHANGED <<elements, sceneState, nextId, pendingWrites, files>>
    \* a call not answered in the step it is made is a save whose write is in flight
    /\ result' = result /\ Len(pendingWrites') >= Len(pendingWrites) =>
           /\ Len(pendingWrites') = Len(pendingWrites) + 1
           /\ pendingWrites'[Len(pendingWrites')].request.name = "save_scene"
    \* and a write in flight ends with the answer to its call
    /\ Len(pendingWrites') < Len(pendingWrites) =>
           \E i \in 1..Len(pendingWrites) :
               /\ Settled(i)
               /\ result'.request = pendingWrites[i].request
               /\ WellFormed(result')

C25_EveryCallGetsOneResult == [][EveryCallIsAnswered]_vars

\* an unknown tool was refused while an element is stored and a write is in flight
C25_Witness ==
    /\ result.request.name = "draw_unicorn"
    /\ result.isError
    /\ Len(elements) = 1
    /\ Len(pendingWrites) = 1

----------------------------------------------------------------------------
(* C26: no tool call changes the theme, viewBackgroundColor, viewport or   *)
(* selectedElements of the scene state: in every reachable state they are  *)
(* "light", "#ffffff", {0, 0, 1} and empty, and so every document          *)
(* save_scene writes has an empty selectedElementIds, scrollX = scrollY =  *)
(* 0 and zoom value 1.                                                     *)

C26_SceneStateKeepsInitialValues ==
    /\ sceneState.theme = Str("light")
    /\ sceneState.viewBackgroundColor = Str("#ffffff")
    /\ sceneState.viewport = [x |-> Num(0), y |-> Num(0), zoom |-> Num(1)]
    /\ sceneState.selectedElements = <<>>
    /\ \A doc \in Documents :
           /\ doc.appState.selectedElementIds = EmptyObject
           /\ doc.appState.scrollX = Num(0)
           /\ doc.appState.scrollY = Num(0)
           /\ doc.appState.zoom = [value |-> Num(1)]
           /\ doc.appState.theme = Str("light")
           /\ doc.appState.viewBackgroundColor = Str("#ffffff")

\* a scene was written after a group was registered, the one change a tool
\* makes to the scene state
C26_Witness ==
    /\ Succeeded("save_scene")
    /\ Len(sceneState.groups) = 1
    /\ \E f \in DOMAIN files : files[f].type = "excalidraw"

----------------------------------------------------------------------------
(* C27: the version, versionNonce and updated fields of a stored element   *)
(* change only in a step that answers a successful update_element of that  *)
(* element: lock_elements, unlock_elements, group_elements,                *)
(* ungroup_elements and save_scene, the in-place repair of arrow and line  *)
(* points included, leave the three fields as they were.                   *)

EditStamp(el) == <<el.version, el.versionNonce, el.updated>>

StampChangesOnlyByUpdate ==
    \A i \in 1..Len(elements), j \in 1..Len(elements') :
        /\ elements'[j].key = elements[i].key
        /\ EditStamp(elements'[j].value) # EditStamp(elements[i].value)
        => /\ UpdateStep
           /\ ~result'.isError
           /\ result'.request.arguments.id.v = elements[i].key

C27_StampChangesOnlyByUpdate == [][StampChangesOnlyByUpdate]_vars

\* an element updated once into an arrow was locked and then given its default
\* points by a save, and still carries the version the update gave it
C27_Witness ==
    /\ Len(pendingWrites) = 1
    /\ MapHas(elements, "id1")
    /\ MapGet(elements, "id1").type = Str("arrow")
    /\ MapGet(elements, "id1").locked = Bool(TRUE)
    /\ HasTwoPoints(MapGet(elements, "id1"))
    /\ MapGet(elements, "id1").version = Num(2)

====
